---- MODULE Spec2Model ----
(***************************************************************************)
(* Kinase-set enrichment engine of kinact: ksea_mean, ksea_delta,          *)
(* ksea_mean_alt (kinact/ksea.py) and weighted_mean (kinact/networkin.py). *)
(*                                                                         *)
(* A pandas Series is a function from its index to a float; a DataFrame is *)
(* a record [index, columns, val] with val a function from <<row, column>> *)
(* to a float.  A float is a pair <<n, d>>: a reduced fraction n/d when d > 0,  *)
(* and <<0,0>> = NaN, <<1,0>> = +inf, <<-1,0>> = -inf, with the IEEE rules *)
(* numpy follows (x/0 does not raise, NaN compares false with everything). *)
(***************************************************************************)
EXTENDS Integers, Sequences, FiniteSets, TLC

VARIABLES data_fc, p_values, interactions, call, pandas, first, interleaved

vars == <<data_fc, p_values, interactions, call, pandas, first, interleaved>>

(***************************************************************************)
(* Bounds of the model.                                                    *)
(***************************************************************************)
\* minimum_set_size is drawn from 0..MaxSetSize
MaxSetSize == 2
\* fold changes are drawn from -1..MaxFc (and NaN)
MaxFc == 2

Sites == {"s1", "s2", "s3"}
\* the columns of the adjacency matrix, in column order
KinaseOrder == <<"k1", "k2", "k3">>
Kinases == {KinaseOrder[i] : i \in 1..Len(KinaseOrder)}
SiteOrder == <<"s1", "s2", "s3">>

(***************************************************************************)
(* Floats.                                                                 *)
(***************************************************************************)
NaN == <<0, 0>>
PInf == <<1, 0>>
NInf == <<-1, 0>>

Abs(n) == IF n < 0 THEN -n ELSE n
Sgn(n) == IF n < 0 THEN -1 ELSE IF n > 0 THEN 1 ELSE 0

RECURSIVE GCD(_, _)
GCD(a, b) == IF b = 0 THEN a ELSE GCD(b, a % b)

\* the reduced fraction n/d, d # 0
Frac(n, d) ==
    LET g == GCD(Abs(n), Abs(d))
    IN  <<(Sgn(d) * n) \div g, Abs(d) \div g>>

F(n) == <<n, 1>>
IsNaN(x) == x = NaN
IsInf(x) == x = PInf \/ x = NInf
IsFinite(x) == x[2] # 0

FNeg(x) == <<-x[1], x[2]>>
FAbs(x) == <<Abs(x[1]), x[2]>>

FAdd(x, y) ==
    IF IsNaN(x) \/ IsNaN(y) THEN NaN
    ELSE IF IsInf(x) /\ IsInf(y) THEN (IF x = y THEN x ELSE NaN)
    ELSE IF IsInf(x) THEN x
    ELSE IF IsInf(y) THEN y
    ELSE Frac(x[1] * y[2] + y[1] * x[2], x[2] * y[2])

FSub(x, y) == FAdd(x, FNeg(y))

FMul(x, y) ==
    IF IsNaN(x) \/ IsNaN(y) THEN NaN
    ELSE IF IsInf(x) \/ IsInf(y)
         THEN (IF x[1] = 0 \/ y[1] = 0 THEN NaN ELSE <<Sgn(x[1]) * Sgn(y[1]), 0>>)
    ELSE Frac(x[1] * y[1], x[2] * y[2])

\* numpy float division: no exception, x/0 is +-inf and 0/0 is NaN
FDiv(x, y) ==
    IF IsNaN(x) \/ IsNaN(y) THEN NaN
    ELSE IF IsInf(y) THEN (IF IsInf(x) THEN NaN ELSE F(0))
    ELSE IF y[1] = 0 THEN (IF x[1] = 0 THEN NaN ELSE <<Sgn(x[1]), 0>>)
    ELSE IF IsInf(x) THEN <<Sgn(x[1]) * Sgn(y[1]), 0>>
    ELSE Frac(x[1] * y[2], x[2] * y[1])

\* x < y; false when either is NaN
FLess(x, y) ==
    IF IsNaN(x) \/ IsNaN(y) \/ x = y THEN FALSE
    ELSE IF x = NInf \/ y = PInf THEN TRUE
    ELSE IF x = PInf \/ y = NInf THEN FALSE
    ELSE x[1] * y[2] < y[1] * x[2]

FGt(x, y) == FLess(y, x)
FLeq(x, y) == ~IsNaN(x) /\ ~IsNaN(y) /\ (x = y \/ FLess(x, y))

\* np.minimum: NaN if either argument is NaN
FMin(x, y) ==
    IF IsNaN(x) \/ IsNaN(y) THEN NaN ELSE IF FLess(y, x) THEN y ELSE x

(***************************************************************************)
(* pandas / numpy helpers.                                                 *)
(***************************************************************************)
Restrict(f, S) == [x \in S |-> f[x]]

\* Series.dropna()
dropna(s) == Restrict(s, {x \in DOMAIN s : ~IsNaN(s[x])})

\* Series.ix[labels]: a label missing from the index is reindexed to NaN
ix(s, labels) == [x \in labels |-> IF x \in DOMAIN s THEN s[x] ELSE NaN]

\* Series.replace(0, np.nan)
replace0(s) == [x \in DOMAIN s |-> IF s[x] = F(0) THEN NaN ELSE s[x]]

\* The installed pandas decides the sum of nothing (the code pins no version):
\* "0.20" stands for the releases up to 0.20 without bottleneck, where an
\* all-NaN sum is NaN and an empty sum is 0; "0.21" for 0.21, where both are
\* NaN; "0.22" for 0.22 to 0.25, and up to 0.20 with bottleneck, where both are 0.
PandasBuilds == {"0.20", "0.21", "0.22"}

\* Series.sum(): NaN entries are skipped
RECURSIVE SumOver(_, _)
SumOver(s, S) ==
    IF S = {} THEN F(0)
    ELSE LET x == CHOOSE y \in S : TRUE
         IN  FAdd(s[x], SumOver(s, S \ {x}))

sum(s) ==
    LET present == {x \in DOMAIN s : ~IsNaN(s[x])}
    IN  IF DOMAIN s = {} THEN (IF pandas = "0.21" THEN NaN ELSE F(0))
        ELSE IF present = {} THEN (IF pandas = "0.22" THEN F(0) ELSE NaN)
        ELSE SumOver(s, present)

\* np.mean of the values of s: NaN entries are not skipped, empty gives NaN
np_mean(s) == FDiv(SumOver(s, DOMAIN s), F(Cardinality(DOMAIN s)))

\* the labels of S in ascending order of their (non-NaN) value
RECURSIVE SortLabels(_, _)
SortLabels(s, S) ==
    IF S = {} THEN <<>>
    ELSE LET x == CHOOSE y \in S : \A t \in S : ~FLess(s[t], s[y])
         IN  <<x>> \o SortLabels(s, S \ {x})

\* np.median of the values of s: NaN if any entry is NaN or s is empty
np_median(s) ==
    LET n == Cardinality(DOMAIN s)
        srt == SortLabels(s, DOMAIN s)
    IN  IF n = 0 \/ \E x \in DOMAIN s : IsNaN(s[x]) THEN NaN
        ELSE IF n % 2 = 1 THEN s[srt[(n + 1) \div 2]]
        ELSE FDiv(FAdd(s[srt[n \div 2]], s[srt[n \div 2 + 1]]), F(2))

\* a DataFrame is [index, columns, val]; df[kinase] is a Series over the index
Column(df, kinase) == [s \in df.index |-> df.val[<<s, kinase>>]]

\* position of a kinase among the columns
Pos(kinase) == CHOOSE i \in 1..Len(KinaseOrder) : KinaseOrder[i] = kinase

(***************************************************************************)
(* scipy.stats.norm.sf, tabulated: SfTable[t + 1] is 10^4 * P(Z >= t/10),  *)
(* rounded to an integer, for t = 0..40. z statistics are carried to one   *)
(* decimal (truncated towards zero) and saturate at 4.0.                   *)
(***************************************************************************)
SfTable ==
    << 5000, 4602, 4207, 3821, 3446, 3085, 2743, 2420, 2119, 1841,
       1587, 1357, 1151,  968,  808,  668,  548,  446,  359,  287,
        228,  179,  139,  107,   82,   62,   47,   35,   26,   19,
         13,   10,    7,    5,    3,    2,    2,    1,    1,    0, 0 >>

ZCap == Len(SfTable) - 1

Isqrt(v) == CHOOSE r \in 0..ZCap : r * r <= v /\ (r = ZCap \/ (r + 1) * (r + 1) > v)

norm_sf(z) ==
    IF IsNaN(z) THEN NaN
    ELSE IF z = PInf THEN F(0)
    ELSE IF z = NInf THEN F(1)
    ELSE LET t == (Abs(z[1]) * 10) \div z[2]
             u == IF t > ZCap THEN ZCap ELSE t
             p == SfTable[u + 1]
         IN  IF z[1] >= 0 THEN Frac(p, 10000) ELSE Frac(10000 - p, 10000)

\* x * np.sqrt(nn) * 1 / sd, for a float x, a finite nn >= 0 and a finite sd
ZStat(x, nn, sd) ==
    IF IsNaN(x) \/ IsNaN(nn) THEN NaN
    ELSE IF IsInf(x)
         THEN (IF nn[1] = 0 THEN NaN
               ELSE IF sd[1] = 0 THEN x
               ELSE <<Sgn(x[1]) * Sgn(sd[1]), 0>>)
    ELSE IF sd[1] = 0
         THEN (IF x[1] = 0 \/ nn[1] = 0 THEN NaN ELSE <<Sgn(x[1]), 0>>)
    ELSE LET num == 100 * x[1] * x[1] * nn[1] * sd[2] * sd[2]
             den == x[2] * x[2] * nn[2] * sd[1] * sd[1]
         IN  Frac(Sgn(x[1]) * Sgn(sd[1]) * Isqrt(num \div den), 10)

(***************************************************************************)
(* scipy.stats.hypergeom(M, n, N).pmf(k)                                   *)
(***************************************************************************)
RECURSIVE Binomial(_, _)
Binomial(a, b) ==
    IF b < 0 \/ b > a THEN 0
    ELSE IF b = 0 THEN 1
    ELSE (Binomial(a - 1, b - 1) * a) \div b

\* invalid parameters give NaN, a point outside the support gives 0
hypergeom_pmf(M, n, N, k) ==
    IF ~(M > 0 /\ n >= 0 /\ N >= 0 /\ n <= M /\ N <= M) THEN NaN
    ELSE Frac(Binomial(n, k) * Binomial(M - n, N - k), Binomial(M, N))

(***************************************************************************)
(* statsmodels multipletests(p_value, alpha=0.05, method='fdr_bh')[1],     *)
(* re-indexed by p_value.index.  status "raise": len(pvals) = 0 divides by *)
(* zero in 1./ntests.                                                      *)
(***************************************************************************)
\* np.argsort order: ascending, NaN last, ties in column order
SortsBefore(p, a, b) ==
    \/ FLess(p[a], p[b])
    \/ ~IsNaN(p[a]) /\ IsNaN(p[b])
    \/ p[a] = p[b] /\ Pos(a) < Pos(b)

Rank(p, k) == 1 + Cardinality({j \in DOMAIN p : SortsBefore(p, j, k)})

\* pvals_sorted / ecdffactor
CorrectedRaw(p, k) == FDiv(FMul(p[k], F(Cardinality(DOMAIN p))), F(Rank(p, k)))

\* np.minimum.accumulate from the largest rank down to the rank of k
RECURSIVE MinAccumulate(_, _, _)
MinAccumulate(p, k, S) ==
    IF S = {} THEN CorrectedRaw(p, k)
    ELSE LET j == CHOOSE y \in S : TRUE
         IN  FMin(CorrectedRaw(p, j), MinAccumulate(p, k, S \ {j}))

\* pvals_corrected[pvals_corrected > 1] = 1
Clip1(x) == IF FGt(x, F(1)) THEN F(1) ELSE x

fdr_bh(p) ==
    [k \in DOMAIN p |->
        Clip1(MinAccumulate(p, k, {j \in DOMAIN p : Rank(p, j) > Rank(p, k)}))]

multipletests(p) ==
    IF DOMAIN p = {} THEN [status |-> "raise", adj |-> <<>>]
    ELSE [status |-> "ok", adj |-> fdr_bh(p)]

(***************************************************************************)
(* The entry points.  Each returns [status, scores, z_scores, p_value,     *)
(* p_value_adj]; the caller receives (scores, p_value_adj) when status is  *)
(* "ok" and an exception when it is "raise".                               *)
(***************************************************************************)
Raised == [status |-> "raise", scores |-> <<>>, z_scores |-> <<>>,
           p_value |-> <<>>, p_value_adj |-> <<>>]

\* the scores of the previous call carried over into the returned scores
Returned_carry(sc, z, p) ==
    LET mt == multipletests(p)
    IN  IF mt.status = "raise" THEN Raised
        ELSE [status |-> "ok", scores |-> sc @@ call.scores, z_scores |-> z,
              p_value |-> p, p_value_adj |-> mt.adj]

Returned(sc, z, p) ==
    LET mt == multipletests(p)
    IN  IF mt.status = "raise" THEN Raised
        ELSE [status |-> "ok", scores |-> sc, z_scores |-> z,
              p_value |-> p, p_value_adj |-> mt.adj]

\* set(interactions[kinase].replace(0, np.nan).dropna().index).intersection(data_fc.index)
Targets(inter, kinase) == DOMAIN dropna(replace0(Column(inter, kinase)))

Intersection(fc, inter, kinase) == Targets(inter, kinase) \cap DOMAIN fc

\* the comparison the wrong way round
PassesFilter_below(size, minimum_set_size) == size < minimum_set_size

\* len(intersect[kinase]) > minimum_set_size
PassesFilter(size, minimum_set_size) == size > minimum_set_size

\* kinase -> qualifying sites, after the minimum-set-size filter
intersect(fc, inter, minimum_set_size) ==
    [kinase \in {k \in inter.columns :
                    PassesFilter(Cardinality(Intersection(fc, inter, k)), minimum_set_size)}
        |-> Intersection(fc, inter, kinase)]

\* the median flag ignored
Centre_mean(s, median) == np_mean(s)

\* np.mean / np.median of a selection of fold changes
Centre(s, median) == IF median THEN np_median(s) ELSE np_mean(s)

\* the scores without the final dropna()
KseaScores_keepna(sets, median) == [k \in DOMAIN sets |-> Centre(sets[k], median)]

\* sets: kinase -> the fold changes its score is taken over
\* pd.Series({kinase: np.mean(...) for kinase in intersect}).dropna()
KseaScores(sets, median) == dropna([k \in DOMAIN sets |-> Centre(sets[k], median)])

\* the z statistics with the undefined ones kept
KseaZScores_keepna(sets, mP, delta, median) ==
    [k \in DOMAIN sets |->
        FAbs(ZStat(FSub(Centre(sets[k], median), F(mP)),
                   F(Cardinality(DOMAIN sets[k])), F(delta)))]

\* pd.Series({kinase: abs((np.mean(...) - mean_all) * np.sqrt(len(...)) * 1 / sd_all) ...}).dropna()
KseaZScores(sets, mP, delta, median) ==
    dropna([k \in DOMAIN sets |->
        FAbs(ZStat(FSub(Centre(sets[k], median), F(mP)),
                   F(Cardinality(DOMAIN sets[k])), F(delta)))])

\* pd.Series(norm.sf(z_scores), index=z_scores.index)
PValues(z) == [k \in DOMAIN z |-> norm_sf(z[k])]

ksea_mean(fc, inter, mP, delta, minimum_set_size, median) ==
    LET isect == intersect(fc, inter, minimum_set_size)
        sets == [k \in DOMAIN isect |-> ix(fc, isect[k])]
        z == KseaZScores(sets, mP, delta, median)
    IN  Returned(KseaScores(sets, median), z, PValues(z))

\* the sites of sel whose significance exceeds cut_off
Significant(pv, sel, cut_off) == {s \in sel : FGt(ix(pv, sel)[s], F(cut_off))}

\* len(data_fc.dropna())
n_total(fc) == Cardinality(DOMAIN dropna(fc))

\* len(np.where(p_values.ix[interactions.index.tolist()].dropna() > cut_off)[0])
n_reg(pv, inter, cut_off) == Cardinality(Significant(pv, inter.index, cut_off))

\* data_fc.ix[sel].where(cond(fc) & (p_values.ix[sel] > cut_off)).dropna(), its length
CountUp(fc, pv, sel, cut_off) ==
    Cardinality({s \in Significant(pv, sel, cut_off) : FGt(ix(fc, sel)[s], F(0))})

\* a fold change of zero counted as a decrease
CountDown_zero(fc, pv, sel, cut_off) ==
    Cardinality({s \in Significant(pv, sel, cut_off) : ~FGt(ix(fc, sel)[s], F(0))})

CountDown(fc, pv, sel, cut_off) ==
    Cardinality({s \in Significant(pv, sel, cut_off) : FLess(ix(fc, sel)[s], F(0))})

DeltaScores(fc, pv, isect, cut_off) ==
    [k \in DOMAIN isect |->
        F(CountUp(fc, pv, isect[k], cut_off) - CountDown(fc, pv, isect[k], cut_off))]

\* the point mass evaluated at the number of significant sites of non-zero
\* fold change
DeltaPValues_signed(fc, pv, inter, isect, cut_off) ==
    [k \in DOMAIN isect |->
        LET cnt == CountUp(fc, pv, isect[k], cut_off) + CountDown(fc, pv, isect[k], cut_off)
        IN  IF cnt > 0
            THEN hypergeom_pmf(n_total(fc), Cardinality(isect[k]),
                               n_reg(pv, inter, cut_off), cnt)
            ELSE F(1)]

\* hyper_geom_dist[kinase].pmf(count) if count > 0 else 1
DeltaPValues(fc, pv, inter, isect, cut_off) ==
    [k \in DOMAIN isect |->
        LET cnt == Cardinality(Significant(pv, isect[k], cut_off))
        IN  IF cnt > 0
            THEN hypergeom_pmf(n_total(fc), Cardinality(isect[k]),
                               n_reg(pv, inter, cut_off), cnt)
            ELSE F(1)]

ksea_delta(fc, pv, inter, cut_off, minimum_set_size) ==
    LET isect == intersect(fc, inter, minimum_set_size)
    IN  Returned(DeltaScores(fc, pv, isect, cut_off), <<>>,
                 DeltaPValues(fc, pv, inter, isect, cut_off))

\* the selection not restricted to the significant sites
reduced_substrate_set_all(fc, pv, sel, cut_off) == dropna(ix(fc, sel))

\* data_fc.ix[sel].where(p_values.ix[sel] > cut_off).dropna()
reduced_substrate_set(fc, pv, sel, cut_off) ==
    dropna([s \in sel |-> IF s \in Significant(pv, sel, cut_off)
                           THEN ix(fc, sel)[s] ELSE NaN])

ksea_mean_alt(fc, pv, inter, mP, delta, cut_off, minimum_set_size, median) ==
    LET isect == intersect(fc, inter, minimum_set_size)
        red == [k \in DOMAIN isect |-> reduced_substrate_set(fc, pv, isect[k], cut_off)]
        z == KseaZScores(red, mP, delta, median)
    IN  Returned(KseaScores(red, median), z, PValues(z))

\* interactions_red.replace(0, np.nan).notnull().sum() >= minimum_set_size
KeepsColumn(count, minimum_set_size) == count >= minimum_set_size

\* the graph restricted to detected sites and to columns with enough entries
interactions_red(fc, inter, minimum_set_size) ==
    LET rows == DOMAIN fc \cap inter.index
        byrow == [index |-> rows, columns |-> inter.columns,
                  val |-> Restrict(inter.val, rows \X inter.columns)]
        cols == {k \in inter.columns :
                    KeepsColumn(Cardinality(Targets(byrow, k)), minimum_set_size)}
    IN  [index |-> rows, columns |-> cols, val |-> Restrict(inter.val, rows \X cols)]

\* data_fc * column: aligned on the union of the two indexes
Product(fc, col) ==
    [s \in DOMAIN fc \cup DOMAIN col |->
        IF s \in DOMAIN fc /\ s \in DOMAIN col THEN FMul(fc[s], col[s]) ELSE NaN]

\* float(interactions_red[kinase].replace(0, np.nan).dropna().sum())
Denominator(col) == sum(dropna(replace0(col)))

WeightedScore(fc, col) == FDiv(sum(Product(fc, col)), Denominator(col))

WeightedScores(fc, red) == [k \in red.columns |-> WeightedScore(fc, Column(red, k))]

\* (scores[kinase] - mP) * np.sqrt(abs(column.replace(0, np.nan).sum())) * 1 / delta
WeightedZScores(sc, red, mP, delta) ==
    [k \in red.columns |->
        ZStat(FSub(sc[k], F(mP)), FAbs(sum(replace0(Column(red, k)))), F(delta))]

weighted_mean(fc, inter, mP, delta, minimum_set_size) ==
    LET red == interactions_red(fc, inter, minimum_set_size)
        sc == WeightedScores(fc, red)
        z == WeightedZScores(sc, red, mP, delta)
    IN  Returned(sc, z, PValues(z))

(***************************************************************************)
(* The caller's data.  The engine keeps no state: the state of the system  *)
(* is the caller's three inputs and the record of the call made on them.   *)
(***************************************************************************)
FcVals == {NaN} \cup {F(n) : n \in -1..MaxFc}
SigVals == {NaN, F(0), F(2)}
WeightVals == {NaN, F(0), F(1), F(-1), F(2)}
CutOffs == {1}
\* the caller's baselines <<mP, delta>>
Baselines == {<<0, 1>>, <<1, 2>>}

SeriesOver(indexes, vals) == UNION {[idx -> vals] : idx \in indexes}

Frame(idx, cols, w) == [index |-> idx, columns |-> cols, val |-> Restrict(w, idx \X cols)]

\* a fixed graph: k1 targets every site, k2 two of them, k3 is a mixed column
BaseWeights ==
    [e \in Sites \X Kinases |->
        IF e[2] = "k2" /\ e[1] = "s3" THEN NaN
        ELSE IF e[2] = "k3" /\ e[1] = "s1" THEN F(-1)
        ELSE F(1)]

BaseFc == [s \in Sites |-> IF s = "s1" THEN F(-1) ELSE IF s = "s2" THEN F(1) ELSE F(2)]
BaseSig == [s \in Sites |-> IF s = "s2" THEN F(0) ELSE F(2)]

\* observations with missing sites and missing values, over a unit-weight graph
InitObservations ==
    /\ data_fc \in SeriesOver(SUBSET Sites, FcVals)
    /\ p_values = BaseSig
    /\ interactions \in
          {Frame(Sites, {"k1", "k2"},
                 [e \in Sites \X {"k1", "k2"} |->
                    IF e[2] = "k2" \/ e[1] \in T THEN F(1) ELSE NaN]) :
             T \in {{}, {"s1"}, {"s1", "s2"}, Sites}}

\* signed, zero and absent weights, over complete observations
InitWeights ==
    /\ data_fc \in {BaseFc, [s \in Sites |-> F(MaxFc)]}
    /\ p_values = BaseSig
    /\ interactions \in
          {Frame(Sites, {"k1", "k2"},
                 [e \in Sites \X {"k1", "k2"} |->
                    IF e[2] = "k1" THEN w1[e[1]] ELSE w2[e[1]]]) :
             w1 \in [Sites -> WeightVals],
             w2 \in {[s \in Sites |-> IF s = "s1" THEN x ELSE F(-1)] : x \in {NaN, F(-1)}}}

\* fold changes and significances of every kind, over the fixed graph
InitSignificance ==
    /\ data_fc \in [Sites -> {NaN, F(-1), F(0), F(MaxFc)}]
    /\ p_values \in [Sites -> SigVals]
    /\ interactions = Frame(Sites, {"k1", "k2"}, BaseWeights)

\* every shape of the three inputs: rows, columns and observed sites
InitShape ==
    /\ data_fc \in {Restrict(BaseFc, idx) : idx \in SUBSET Sites}
    /\ p_values = [s \in Sites |-> F(2)]
    /\ interactions \in
          {Frame(idx, cols, BaseWeights) : idx \in SUBSET Sites, cols \in SUBSET Kinases}

\* three kinases, the third with every target set, under every pattern of
\* significance
InitKinases ==
    /\ data_fc \in {BaseFc, [BaseFc EXCEPT !["s2"] = F(0)]}
    /\ p_values \in [Sites -> {F(0), F(2)}]
    /\ interactions \in
          {Frame(Sites, Kinases,
                 [e \in Sites \X Kinases |->
                    IF e[2] = "k3" THEN (IF e[1] \in T THEN F(1) ELSE NaN)
                    ELSE BaseWeights[e]]) :
             T \in SUBSET Sites}

NoCall ==
    [fn |-> "none", mP |-> 0, delta |-> 0, cut_off |-> 0, minimum_set_size |-> 0,
     median |-> FALSE, status |-> "none", scores |-> <<>>, z_scores |-> <<>>,
     p_value |-> <<>>, p_value_adj |-> <<>>]

Record(fn, mP, delta, cut_off, minimum_set_size, median, r) ==
    [fn |-> fn, mP |-> mP, delta |-> delta, cut_off |-> cut_off,
     minimum_set_size |-> minimum_set_size, median |-> median,
     status |-> r.status, scores |-> r.scores, z_scores |-> r.z_scores,
     p_value |-> r.p_value, p_value_adj |-> r.p_value_adj]

\* missing fold changes over absent weights, where the sum of nothing decides
InitBuilds ==
    /\ data_fc \in SeriesOver(SUBSET Sites, {NaN, F(-1)})
    /\ p_values = BaseSig
    /\ interactions \in
          {Frame(Sites, {"k1", "k2"},
                 [e \in Sites \X {"k1", "k2"} |->
                    IF e[2] = "k2" \/ e[1] \in T THEN F(1) ELSE NaN]) :
             T \in {{}, {"s1"}, {"s1", "s2"}, Sites}}

\* the family where the sum of nothing decides is taken under every pandas,
\* the others under the latest
Init ==
    /\ \/ InitBuilds /\ pandas \in PandasBuilds
       \/ /\ \/ InitObservations
             \/ InitWeights
             \/ InitSignificance
             \/ InitShape
             \/ InitKinases
          /\ pandas = "0.22"
    /\ call = NoCall
    /\ first = NoCall
    /\ interleaved = FALSE

\* The caller's record of a behaviour: first keeps the first call and what it
\* returned, interleaved tells that a later call returned other scores.
Remember ==
    /\ first' = IF first.fn = "none" THEN call' ELSE first
    /\ interleaved' = (interleaved \/ (first.fn # "none" /\ call'.scores # first.scores))

\* One call of an entry point by the caller.
RunKseaMean(mP, delta, m, median) ==
    /\ call' = Record("ksea_mean", mP, delta, 0, m, median,
                      ksea_mean(data_fc, interactions, mP, delta, m, median))
    /\ Remember
    /\ UNCHANGED <<data_fc, p_values, interactions, pandas>>

RunKseaDelta(cut_off, m) ==
    /\ call' = Record("ksea_delta", 0, 0, cut_off, m, FALSE,
                      ksea_delta(data_fc, p_values, interactions, cut_off, m))
    /\ Remember
    /\ UNCHANGED <<data_fc, p_values, interactions, pandas>>

RunKseaMeanAlt(mP, delta, cut_off, m, median) ==
    /\ call' = Record("ksea_mean_alt", mP, delta, cut_off, m, median,
                      ksea_mean_alt(data_fc, p_values, interactions, mP, delta,
                                    cut_off, m, median))
    /\ Remember
    /\ UNCHANGED <<data_fc, p_values, interactions, pandas>>

RunWeightedMean(mP, delta, m) ==
    /\ call' = Record("weighted_mean", mP, delta, 0, m, FALSE,
                      weighted_mean(data_fc, interactions, mP, delta, m))
    /\ Remember
    /\ UNCHANGED <<data_fc, p_values, interactions, pandas>>

\* the first call of a behaviour
CallKseaMean(mP, delta, m, median) ==
    call.fn = "none" /\ RunKseaMean(mP, delta, m, median)

CallKseaDelta(cut_off, m) ==
    call.fn = "none" /\ RunKseaDelta(cut_off, m)

CallKseaMeanAlt(mP, delta, cut_off, m, median) ==
    call.fn = "none" /\ RunKseaMeanAlt(mP, delta, cut_off, m, median)

CallWeightedMean(mP, delta, m) ==
    call.fn = "none" /\ RunWeightedMean(mP, delta, m)

Next ==
    \/ \E b \in Baselines, m \in 0..MaxSetSize, median \in BOOLEAN :
          CallKseaMean(b[1], b[2], m, median)
    \/ \E cut_off \in CutOffs, m \in 0..MaxSetSize :
          CallKseaDelta(cut_off, m)
    \/ \E b \in Baselines, cut_off \in CutOffs, m \in 0..MaxSetSize, median \in BOOLEAN :
          CallKseaMeanAlt(b[1], b[2], cut_off, m, median)
    \/ \E b \in Baselines, m \in 0..MaxSetSize :
          CallWeightedMean(b[1], b[2], m)

Spec == Init /\ [][Next]_vars

(***************************************************************************)
(* The same calls with a global standard deviation that is zero or         *)
(* negative: delta is a plain argument, the entry points do not check it.  *)
(***************************************************************************)
DegenerateBaselines == {<<0, 0>>, <<0, -1>>}

InitDegenerate ==
    /\ \/ InitSignificance
       \/ InitShape
    /\ pandas \in {"0.21", "0.22"}
    /\ call = NoCall
    /\ first = NoCall
    /\ interleaved = FALSE

NextDegenerate ==
    \/ \E b \in DegenerateBaselines, m \in 0..MaxSetSize, median \in BOOLEAN :
          CallKseaMean(b[1], b[2], m, median)
    \/ \E cut_off \in CutOffs, m \in 0..MaxSetSize :
          CallKseaDelta(cut_off, m)
    \/ \E b \in DegenerateBaselines, cut_off \in CutOffs, m \in 0..MaxSetSize,
          median \in BOOLEAN :
          CallKseaMeanAlt(b[1], b[2], cut_off, m, median)
    \/ \E b \in DegenerateBaselines, m \in 0..MaxSetSize :
          CallWeightedMean(b[1], b[2], m)

SpecDegenerate == InitDegenerate /\ [][NextDegenerate]_vars

(***************************************************************************)
(* Sequences of calls on the same inputs: any entry point, any number of   *)
(* times, in any order.                                                    *)
(***************************************************************************)
SequenceBaselines == {<<0, 1>>}

InitSequence ==
    /\ data_fc \in {BaseFc, [BaseFc EXCEPT !["s2"] = NaN]}
    /\ p_values = BaseSig
    /\ interactions = Frame(Sites, Kinases, BaseWeights)
    /\ pandas \in {"0.20", "0.22"}
    /\ call = NoCall
    /\ first = NoCall
    /\ interleaved = FALSE

NextSequence ==
    \/ \E b \in SequenceBaselines, m \in 0..MaxSetSize, median \in BOOLEAN :
          RunKseaMean(b[1], b[2], m, median)
    \/ \E cut_off \in CutOffs, m \in 0..MaxSetSize :
          RunKseaDelta(cut_off, m)
    \/ \E b \in SequenceBaselines, cut_off \in CutOffs, m \in 0..MaxSetSize,
          median \in BOOLEAN :
          RunKseaMeanAlt(b[1], b[2], cut_off, m, median)
    \/ \E b \in SequenceBaselines, m \in 0..MaxSetSize :
          RunWeightedMean(b[1], b[2], m)

SpecSequence == InitSequence /\ [][NextSequence]_vars

(***************************************************************************)
(* Properties.  They are stated on the caller's inputs and the returned    *)
(* mappings, not on the intermediate values of the entry points.           *)
(***************************************************************************)
Ok(fn) == call.fn = fn /\ call.status = "ok"
KseaFns == {"ksea_mean", "ksea_delta", "ksea_mean_alt"}
ZTestFns == {"ksea_mean", "ksea_mean_alt", "weighted_mean"}

Weight(s, k) == interactions.val[<<s, k>>]

\* the sites of data_fc that the graph gives a non-absent, non-zero weight for k
QualifyingSites(k) ==
    {s \in DOMAIN data_fc \cap interactions.index :
        Weight(s, k) # NaN /\ Weight(s, k) # F(0)}

\* the qualifying sites whose significance is present and above the cut-off
SignificantSites(k) ==
    {s \in QualifyingSites(k) :
        s \in DOMAIN p_values /\ FLess(F(call.cut_off), p_values[s])}

AllDefined(S) == \A s \in S : data_fc[s] # NaN

\* C1: the score mapping and the adjusted p-value mapping of a returned call
\* have the same kinases as keys (z-test entry points: for delta > 0)
C1_SameKeys ==
    (call.status = "ok" /\ (call.fn \in ZTestFns => call.delta > 0))
        => DOMAIN call.scores = DOMAIN call.p_value_adj

\* a ksea_mean_alt call on data with a missing fold change that returned a kinase
\* and left out one whose significant subset is empty
C1_Witness ==
    /\ Ok("ksea_mean_alt")
    /\ call.delta > 0
    /\ \E s \in DOMAIN data_fc : data_fc[s] = NaN
    /\ DOMAIN call.scores # {}
    /\ \E k \in interactions.columns :
          /\ Cardinality(QualifyingSites(k)) > call.minimum_set_size
          /\ SignificantSites(k) = {}
          /\ k \notin DOMAIN call.scores

\* C2 (as claimed): a kinase is scored iff it has at least minimum_set_size
\* qualifying sites.  Stated for kinases with a qualifying site and where
\* nothing but the filter can drop a kinase: ksea_delta, and ksea_mean on
\* kinases whose fold changes are all defined.
C2_Claimed ==
    /\ Ok("ksea_delta") =>
          \A k \in interactions.columns :
              QualifyingSites(k) # {}
                  => (k \in DOMAIN call.scores
                        <=> Cardinality(QualifyingSites(k)) >= call.minimum_set_size)
    /\ Ok("ksea_mean") =>
          \A k \in interactions.columns :
              (QualifyingSites(k) # {} /\ AllDefined(QualifyingSites(k)))
                  => (k \in DOMAIN call.scores
                        <=> Cardinality(QualifyingSites(k)) >= call.minimum_set_size)

\* the number of sites of S whose fold change is below / at most v
Below(S, v) == Cardinality({s \in S : FLess(data_fc[s], v)})
AtMost(S, v) == Cardinality({s \in S : FLeq(data_fc[s], v)})

\* v is the i-th smallest fold change over S
IsOrderStatistic(S, v, i) ==
    (\E s \in S : data_fc[s] = v) /\ Below(S, v) < i /\ i <= AtMost(S, v)

\* x is the arithmetic mean of the fold changes over S, each site once
IsMean(S, x) ==
    S # {} /\ FMul(x, F(Cardinality(S))) = SumOver(data_fc, S)

\* x is the median of the fold changes over S
IsMedian(S, x) ==
    LET n == Cardinality(S)
    IN  /\ n > 0
        /\ IF n % 2 = 1 THEN IsOrderStatistic(S, x, (n + 1) \div 2)
           ELSE \E a, b \in {data_fc[s] : s \in S} :
                   /\ IsOrderStatistic(S, a, n \div 2)
                   /\ IsOrderStatistic(S, b, n \div 2 + 1)
                   /\ FMul(x, F(2)) = FAdd(a, b)

IsCentre(S, x, median) == IF median THEN IsMedian(S, x) ELSE IsMean(S, x)

\* C3: a score of ksea_mean over defined fold changes is the mean (the median
\* when median is set) over exactly the kinase's qualifying sites
C3_MeanScore ==
    Ok("ksea_mean") =>
        \A k \in DOMAIN call.scores :
            AllDefined(QualifyingSites(k))
                => IsCentre(QualifyingSites(k), call.scores[k], call.median)

\* a median call that returned a kinase with three qualifying sites whose
\* median differs from their mean
C3_Witness ==
    /\ Ok("ksea_mean")
    /\ call.median
    /\ \E k \in DOMAIN call.scores :
          /\ Cardinality(QualifyingSites(k)) = 3
          /\ AllDefined(QualifyingSites(k))
          /\ ~IsMean(QualifyingSites(k), call.scores[k])

\* C4: a score of ksea_delta is the number of significant qualifying sites
\* with a positive fold change minus the number with a negative one
C4_DeltaScore ==
    Ok("ksea_delta") =>
        \A k \in DOMAIN call.scores :
            call.scores[k] =
                F(Cardinality({s \in SignificantSites(k) : FLess(F(0), data_fc[s])})
                  - Cardinality({s \in SignificantSites(k) : FLess(data_fc[s], F(0))}))

\* a returned kinase with a non-zero score that has a significant qualifying
\* site of fold change zero and a qualifying site of missing significance
C4_Witness ==
    /\ Ok("ksea_delta")
    /\ \E k \in DOMAIN call.scores :
          /\ call.scores[k] # F(0)
          /\ \E s \in SignificantSites(k) : data_fc[s] = F(0)
          /\ \E s \in QualifyingSites(k) : p_values[s] = NaN
          /\ \E s \in QualifyingSites(k) : data_fc[s] = NaN

\* sum over S of fold change times weight, and of the absolute weights
WeightedSum(S, k) == SumOver([s \in S |-> FMul(data_fc[s], Weight(s, k))], S)
AbsWeightSum(S, k) == SumOver([s \in S |-> FAbs(Weight(s, k))], S)

\* C5 (as claimed): a score of weighted_mean is the weighted sum of the fold
\* changes over the observed target sites divided by the sum of the absolute
\* weights
C5_Claimed ==
    Ok("weighted_mean") =>
        \A k \in DOMAIN call.scores :
            (QualifyingSites(k) # {} /\ AllDefined(QualifyingSites(k)))
                => call.scores[k] = FDiv(WeightedSum(QualifyingSites(k), k),
                                         AbsWeightSum(QualifyingSites(k), k))

UnitWeights ==
    \A s \in interactions.index, k \in interactions.columns : Weight(s, k) \in {NaN, F(1)}

\* C6 (as claimed): on a unit-weight graph and defined fold changes,
\* weighted_mean returns the score mapping ksea_mean(median=False) returns for
\* the same arguments.  Stated for minimum_set_size >= 1, where every column
\* weighted_mean keeps has a positive denominator.
C6_Claimed ==
    (/\ call.fn = "weighted_mean"
     /\ call.minimum_set_size >= 1
     /\ UnitWeights
     /\ AllDefined(DOMAIN data_fc)) =>
        LET r == ksea_mean(data_fc, interactions, call.mP, call.delta,
                           call.minimum_set_size, FALSE)
        IN  call.status = r.status /\ call.scores = r.scores

\* the significant qualifying sites with a defined fold change
SignificantDefined(k) == {s \in SignificantSites(k) : data_fc[s] # NaN}

\* C7: ksea_mean_alt returns a kinase iff it passes the minimum-set-size
\* filter and has a significant qualifying site with a defined fold change;
\* its score is the mean (median) over exactly those sites and the n of its
\* z statistic is their number
C7_MeanAlt ==
    Ok("ksea_mean_alt") =>
        \A k \in interactions.columns :
            /\ k \in DOMAIN call.scores
                  <=> /\ Cardinality(QualifyingSites(k)) > call.minimum_set_size
                      /\ SignificantDefined(k) # {}
            /\ k \in DOMAIN call.scores =>
                  /\ IsCentre(SignificantDefined(k), call.scores[k], call.median)
                  /\ call.z_scores[k] =
                        FAbs(ZStat(FSub(call.scores[k], F(call.mP)),
                                   F(Cardinality(SignificantDefined(k))), F(call.delta)))

\* a call that returned one kinase scored over a proper subset of its
\* qualifying sites and left out another that passed the filter
C7_Witness ==
    /\ Ok("ksea_mean_alt")
    /\ \E k \in DOMAIN call.scores :
          /\ SignificantDefined(k) # QualifyingSites(k)
          /\ Cardinality(SignificantDefined(k)) >= 2
          /\ ~IsCentre(QualifyingSites(k), call.scores[k], call.median)
    /\ \E k \in interactions.columns \ DOMAIN call.scores :
          Cardinality(QualifyingSites(k)) > call.minimum_set_size

\* C8 (as claimed): every adjusted p-value is at least the raw p-value of its
\* kinase and lies in [0, 1].  Stated for minimum_set_size >= 1, where every
\* returned kinase has a qualifying site.
C8_Claimed ==
    (call.status = "ok" /\ call.minimum_set_size >= 1) =>
        \A k \in DOMAIN call.p_value_adj :
            /\ FLeq(call.p_value[k], call.p_value_adj[k])
            /\ FLeq(F(0), call.p_value_adj[k])
            /\ FLeq(call.p_value_adj[k], F(1))

\* the Benjamini-Hochberg adjustment of p[k]: the least min(1, p[j] * m / rank)
\* over the kinases j with p[j] >= p[k], rank counting the p-values <= p[j]
RECURSIVE LeastOf(_)
LeastOf(S) ==
    LET x == CHOOSE y \in S : TRUE
    IN  IF S = {x} THEN x
        ELSE LET r == LeastOf(S \ {x}) IN IF FLess(x, r) THEN x ELSE r

BHTerm(p, j) ==
    LET v == FDiv(FMul(p[j], F(Cardinality(DOMAIN p))),
                  F(Cardinality({i \in DOMAIN p : FLeq(p[i], p[j])})))
    IN  IF FLess(F(1), v) THEN F(1) ELSE v

BenjaminiHochberg(p, k) == LeastOf({BHTerm(p, j) : j \in {i \in DOMAIN p : FLeq(p[k], p[i])}})

\* C9 (as claimed): the adjusted p-values are the joint Benjamini-Hochberg
\* adjustment of all the raw p-values of the call, keyed by the same kinases
\* and monotone in the raw p-values.  Stated for the entry points of ksea.py.
C9_Claimed ==
    (call.status = "ok" /\ call.fn \in KseaFns) =>
        /\ DOMAIN call.p_value_adj = DOMAIN call.p_value
        /\ \A k \in DOMAIN call.p_value :
              ~IsNaN(call.p_value[k]) =>
                  call.p_value_adj[k] = BenjaminiHochberg(dropna(call.p_value), k)
        /\ \A a, b \in DOMAIN call.p_value :
              FLeq(call.p_value[a], call.p_value[b])
                  => FLeq(call.p_value_adj[a], call.p_value_adj[b])

\* the call of the state repeated with another minimum_set_size
Rerun(m) ==
    IF call.fn = "ksea_mean"
    THEN ksea_mean(data_fc, interactions, call.mP, call.delta, m, call.median)
    ELSE IF call.fn = "ksea_delta"
    THEN ksea_delta(data_fc, p_values, interactions, call.cut_off, m)
    ELSE IF call.fn = "ksea_mean_alt"
    THEN ksea_mean_alt(data_fc, p_values, interactions, call.mP, call.delta,
                       call.cut_off, m, call.median)
    ELSE weighted_mean(data_fc, interactions, call.mP, call.delta, m)

\* C10: a larger minimum_set_size returns a subset of the kinases
C10_MonotoneFilter ==
    call.status = "ok" =>
        \A m \in (call.minimum_set_size + 1)..(MaxSetSize + 1) :
            DOMAIN Rerun(m).scores \subseteq DOMAIN call.scores

\* a call whose kinases shrink to a non-empty proper subset under a larger
\* minimum_set_size
C10_Witness ==
    /\ call.status = "ok"
    /\ \E m \in (call.minimum_set_size + 1)..MaxSetSize :
          /\ DOMAIN Rerun(m).scores # {}
          /\ DOMAIN Rerun(m).scores # DOMAIN call.scores

\* C11 (as claimed): a call on a graph without kinase columns, or on an
\* observation vector without sites, returns an empty score mapping and an
\* empty adjusted p-value mapping and does not raise
C11_Claimed ==
    (call.fn # "none" /\ (interactions.columns = {} \/ DOMAIN data_fc = {})) =>
        /\ call.status = "ok"
        /\ DOMAIN call.scores = {}
        /\ DOMAIN call.p_value_adj = {}

\* C12 (as claimed): a z-test call with delta <= 0, and a ksea_delta call on
\* observations without a defined fold change (n_total = 0), raise and return
\* no mappings.  Stated on calls where some kinase passes the filter, so that
\* the correction of zero p-values cannot be what raises.
C12_Claimed ==
    (/\ \/ call.fn \in ZTestFns /\ call.delta <= 0
        \/ call.fn = "ksea_delta" /\ n_total(data_fc) = 0
     /\ \E k \in interactions.columns :
           Cardinality(QualifyingSites(k)) > call.minimum_set_size) =>
        call.status = "raise"

\* the signed sum of the weights of k over S
WeightSum(S, k) == SumOver([s \in S |-> Weight(s, k)], S)

\* C13 (as claimed): weighted_mean leaves a kinase whose weights over its
\* observed target sites sum to zero out of both returned mappings, without
\* raising.  Stated for kinases with enough observed target sites to pass the
\* column filter.
C13_Claimed ==
    call.fn = "weighted_mean" =>
        \A k \in interactions.columns :
            (/\ QualifyingSites(k) # {}
             /\ Cardinality(QualifyingSites(k)) >= call.minimum_set_size
             /\ WeightSum(QualifyingSites(k), k) = F(0)) =>
                /\ call.status = "ok"
                /\ k \notin DOMAIN call.scores
                /\ k \notin DOMAIN call.p_value_adj

\* the call of the state repeated on other inputs
Repeat(fc, pv, inter) ==
    IF call.fn = "ksea_mean"
    THEN ksea_mean(fc, inter, call.mP, call.delta, call.minimum_set_size, call.median)
    ELSE IF call.fn = "ksea_delta"
    THEN ksea_delta(fc, pv, inter, call.cut_off, call.minimum_set_size)
    ELSE IF call.fn = "ksea_mean_alt"
    THEN ksea_mean_alt(fc, pv, inter, call.mP, call.delta, call.cut_off,
                       call.minimum_set_size, call.median)
    ELSE weighted_mean(fc, inter, call.mP, call.delta, call.minimum_set_size)

\* the graph without the column of k
WithoutColumn(k) ==
    Frame(interactions.index, interactions.columns \ {k}, interactions.val)

\* k has fewer qualifying sites than the threshold or, in ksea_mean_alt, no
\* significant qualifying site
Insufficient(k) ==
    \/ Cardinality(QualifyingSites(k)) < call.minimum_set_size
    \/ call.fn = "ksea_mean_alt" /\ SignificantSites(k) = {}

SignificantObserved ==
    {s \in DOMAIN data_fc : s \in DOMAIN p_values /\ FLess(F(call.cut_off), p_values[s])}

\* C15 (as claimed): the raw p-value of ksea_delta is the hypergeometric point
\* mass with N the number of observed sites, K the number of qualifying sites
\* of the kinase and n the number of significant observed sites, whatever the
\* rows of the graph.  Stated for observations without missing values and
\* graphs whose rows are all observed, where N >= K and N >= n.
C15_Claimed ==
    (/\ Ok("ksea_delta")
     /\ AllDefined(DOMAIN data_fc)
     /\ interactions.index \subseteq DOMAIN data_fc) =>
        \A k \in DOMAIN call.p_value :
            SignificantSites(k) # {} =>
                call.p_value[k] =
                    hypergeom_pmf(Cardinality(DOMAIN data_fc),
                                  Cardinality(QualifyingSites(k)),
                                  Cardinality(SignificantObserved),
                                  Cardinality(SignificantSites(k)))

\* C16: ksea_delta returns every kinase that passes the filter; its raw
\* p-value is 1 when it has no significant qualifying site, and otherwise the
\* point mass of the call's hypergeometric distribution at the number of its
\* significant qualifying sites, whatever their fold changes; a kinase without
\* significant qualifying sites has score 0 and is one of the tests of the
\* correction
C16_DeltaPValue ==
    Ok("ksea_delta") =>
        /\ \A k \in interactions.columns :
              Cardinality(QualifyingSites(k)) > call.minimum_set_size =>
                  /\ k \in DOMAIN call.scores
                  /\ k \in DOMAIN call.p_value_adj
                  /\ IF SignificantSites(k) = {}
                     THEN call.p_value[k] = F(1) /\ call.scores[k] = F(0)
                     ELSE call.p_value[k] =
                            hypergeom_pmf(
                                Cardinality({s \in DOMAIN data_fc : data_fc[s] # NaN}),
                                Cardinality(QualifyingSites(k)),
                                Cardinality({s \in interactions.index :
                                                FLess(F(call.cut_off), p_values[s])}),
                                Cardinality(SignificantSites(k)))
        /\ (\A k \in DOMAIN call.p_value : ~IsNaN(call.p_value[k])) =>
              \A k \in DOMAIN call.p_value :
                  call.p_value_adj[k] = BenjaminiHochberg(call.p_value, k)

\* a call that returned a kinase without significant qualifying sites next to
\* a kinase whose significant qualifying sites include one of fold change zero
\* and whose adjusted p-value is above its raw p-value
C16_Witness ==
    /\ Ok("ksea_delta")
    /\ \E k \in DOMAIN call.scores : QualifyingSites(k) # {} /\ SignificantSites(k) = {}
    /\ \E k \in DOMAIN call.scores :
          /\ \E s \in SignificantSites(k) : data_fc[s] = F(0)
          /\ FLess(call.p_value[k], call.p_value_adj[k])

\* C17 (as claimed): in every z-test entry point the z statistic of a returned
\* kinase is not negative and its raw p-value is at most 1/2
C17_Claimed ==
    (call.status = "ok" /\ call.fn \in ZTestFns /\ call.delta > 0) =>
        \A k \in DOMAIN call.z_scores :
            /\ ~FLess(call.z_scores[k], F(0))
            /\ ~FLess(Frac(1, 2), call.p_value[k])

\* the graph with the entry e, absent or 0, replaced by the other of the two
Swapped(e) ==
    [interactions EXCEPT !.val[e] = IF @ = NaN THEN F(0) ELSE NaN]

\* C18 (as claimed): replacing an absent entry of the graph by 0, or a 0 entry
\* by absent, changes neither the outcome of the call, nor the returned
\* kinases, nor any score or adjusted p-value
C18_Claimed ==
    call.fn # "none" =>
        \A e \in interactions.index \X interactions.columns :
            interactions.val[e] \in {NaN, F(0)} =>
                LET r == Repeat(data_fc, p_values, Swapped(e))
                IN  /\ r.status = call.status
                    /\ r.scores = call.scores
                    /\ r.p_value_adj = call.p_value_adj

\* two calls of the same entry point with the same arguments
SameArguments(a, b) ==
    /\ a.fn = b.fn
    /\ a.mP = b.mP
    /\ a.delta = b.delta
    /\ a.cut_off = b.cut_off
    /\ a.minimum_set_size = b.minimum_set_size
    /\ a.median = b.median

\* a step leaves the caller's three inputs as they were
InputsKept ==
    /\ data_fc' = data_fc
    /\ p_values' = p_values
    /\ interactions' = interactions

\* a call with the arguments of the first call returns what the first call
\* returned
RepeatsFirst == SameArguments(first, call) => call = first

C20_Claimed ==
    Ok("ksea_delta") =>
        \A k \in DOMAIN call.scores :
            LET N == n_total(data_fc)
                K == Cardinality(QualifyingSites(k))
                n == n_reg(p_values, interactions, call.cut_off)
                x == Cardinality(SignificantSites(k))
            IN  K <= N /\ n <= N /\ x <= K /\ x <= n

====
